---- MODULE Spec2Model ----
(***************************************************************************)
(* Model of the stivale2 boot structure of src/v2/mod.rs: StivaleStruct    *)
(* with its two 64-byte identification buffers and the address of the      *)
(* first tag, the linear tag lookup get_tag, the typed accessors built on  *)
(* it, and the bootloader-side mutators.                                   *)
(*                                                                         *)
(* Memory is byte addressed.  A 64-bit value is the tuple of its 8 bytes   *)
(* in memory (little-endian) order, so identifiers keep their full width.  *)
(***************************************************************************)
EXTENDS Integers, Sequences, FiniteSets, TLC

VARIABLES
    bootloader_brand,    \* StivaleStruct.bootloader_brand : [u8; 64]
    bootloader_version,  \* StivaleStruct.bootloader_version : [u8; 64]
    tags,                \* StivaleStruct.tags : u64, address of the first tag
    mem,                 \* bootloader-reserved memory: address -> byte
    heap,                \* ghost: the tags laid out in mem, <<[kind, addr, count]>>
    pc,                  \* "idle" | "get_tag" | "fault" | "panic"
    caller,              \* the public function that is or was last running
    identifier,          \* get_tag's argument
    current_tag,         \* get_tag's loop variable
    result,              \* get_tag's return value, Option<u64>
    view,                \* the typed accessor's return value
    arg,                 \* the last setter call: its name and its string
    added,               \* the header last handed to add_tag
    out,                 \* the &str returned by the last string getter
    trace,               \* ghost: addresses of the headers get_tag has read
    touched,             \* ghost: bytes read by the decoder and by the last use of the view
    stacks,              \* ghost: target stacks the caller has stored per record
    expect_brand,        \* ghost: the bytes the set calls said they store
    expect_version       \* ghost: same for the version buffer

vars == <<bootloader_brand, bootloader_version, tags, mem, heap, pc, caller,
          identifier, current_tag, result, view, arg, added, out, trace,
          touched, stacks, expect_brand, expect_version>>

-----------------------------------------------------------------------------
(* Bounds of the model. *)

\* longest chain Init lays out
MaxTags == 2
\* largest record count of a count-prefixed tag
MaxCount == 2
\* longest short string handed to the setters
MaxStrLen == 2
\* number of header reads the ghost trace records before it saturates
MaxTrace == 4

-----------------------------------------------------------------------------
(* Program constants. *)

\* [u8; 64]
BufLen == 64
\* mem::size_of::<StivaleTagHeader>() : identifier u64 + next u64
TagHeaderSize == 16
\* faulty variant: the CPU count is read 8 bytes early
SmpCountOffsetShort == TagHeaderSize + 8
\* ptr.add(32) in smp / smp_mut
SmpCountOffset == 32

-----------------------------------------------------------------------------
(* 64-bit values as 8 little-endian bytes. *)

Byte == 0..255

LE(be) == [i \in 1..8 |-> be[9 - i]]

Zero64 == [i \in 1..8 |-> 0]

\* n < 2^24
NatToU64(n) ==
    [i \in 1..8 |-> CASE i = 1 -> n % 256
                      [] i = 2 -> (n \div 256) % 256
                      [] i = 3 -> (n \div 65536) % 256
                      [] OTHER -> 0]

\* an address no modelled memory is mapped at
Unmapped == 256 * 65536

\* the 64-bit value of Unmapped
Wild64 == [i \in 1..8 |-> IF i = 4 THEN 1 ELSE 0]

\* values of 2^24 and more are all outside the model: they collapse to Unmapped
U64ToNat(w) ==
    IF \A i \in 4..8 : w[i] = 0
    THEN w[1] + 256 * w[2] + 65536 * w[3]
    ELSE Unmapped

-----------------------------------------------------------------------------
(* The identifiers the typed accessors look up. *)

COMMAND_LINE_ID     == LE(<<\he5, \he7, \h6a, \h1b, \h45, \h97, \ha7, \h81>>)
MEMORY_MAP_ID       == LE(<<\h21, \h87, \hf7, \h9e, \h86, \h12, \hde, \h07>>)
FRAMEBUFFER_ID      == LE(<<\h50, \h64, \h61, \hd2, \h95, \h04, \h08, \hfa>>)
EDID_INFO_ID        == LE(<<\h96, \h86, \h09, \hd7, \haf, \h96, \hb8, \h45>>)
MTRR_ID             == LE(<<\h6b, \hc1, \ha7, \h8e, \hbe, \h87, \h11, \h72>>)
TERMINAL_ID         == LE(<<\hc2, \hb3, \hf4, \hc3, \h23, \h3b, \h09, \h74>>)
MODULES_ID          == LE(<<\h4b, \h6f, \he4, \h66, \haa, \hde, \h04, \hce>>)
RSDP_ID             == LE(<<\h9e, \h17, \h86, \h93, \h0a, \h37, \h5e, \h78>>)
SMBIOS_ID           == LE(<<\h27, \h4b, \hd2, \h46, \hc6, \h2b, \hf7, \hd1>>)
EPOCH_ID            == LE(<<\h56, \h6a, \h7b, \hed, \h88, \h8e, \h14, \h07>>)
FIRMWARE_ID         == LE(<<\h35, \h9d, \h83, \h78, \h55, \he3, \h85, \h8c>>)
EFI_SYSTEM_TABLE_ID == LE(<<\h4b, \hc5, \hec, \h15, \h84, \h5b, \h55, \h8e>>)
KERNEL_FILE_ID      == LE(<<\he5, \h99, \hd9, \h0c, \h29, \h75, \h58, \h4a>>)
KERNEL_SLIDE_ID     == LE(<<\hee, \h80, \h84, \h7d, \h01, \h50, \h6c, \h57>>)
SMP_ID              == LE(<<\h34, \hd1, \hd9, \h63, \h39, \h64, \h70, \h25>>)
\* faulty variant: smp_mut looks up the PXE identifier
SMP_MUT_ID_Pasted   == LE(<<\h29, \hd1, \he9, \h62, \h39, \h24, \h70, \h32>>)
SMP_MUT_ID          == LE(<<\h34, \hd1, \hd9, \h63, \h39, \h64, \h70, \h25>>)
PXE_INFO_ID         == LE(<<\h29, \hd1, \he9, \h62, \h39, \h24, \h70, \h32>>)
UART_ID             == LE(<<\hb8, \h13, \hf9, \hb8, \hdb, \hc7, \h87, \h97>>)
DEV_TREE_ID         == LE(<<\hab, \hb2, \h9b, \hd4, \h9a, \h28, \h33, \hfa>>)
VMAP_ID             == LE(<<\hb0, \hed, \h25, \h7d, \hb1, \h8c, \hb5, \h8f>>)
KERNEL_FILE_V2_ID   == LE(<<\h37, \hc1, \h30, \h18, \ha0, \h2c, \h6e, \ha2>>)
PMRS_ID             == LE(<<\h5d, \hf2, \h66, \ha6, \h40, \h47, \hb6, \hbd>>)
KERNEL_BASE_ADDR_ID == LE(<<\h06, \h0d, \h78, \h87, \h4a, \h2a, \h8a, \hf0>>)

-----------------------------------------------------------------------------
(* The typed accessors: which identifier each one hands to get_tag, and    *)
(* for the count-prefixed ones where it reads the record count.            *)

Accessors ==
    {"command_line", "memory_map", "framebuffer", "edid_info", "mtrr",
     "terminal", "modules", "rsdp", "smbios", "epoch", "firmware",
     "efi_system_table", "kernel_file", "kernel_slide", "smp", "smp_mut",
     "pxe_info", "uart", "dev_tree", "vmap", "kernel_file_v2", "pmrs",
     "kernel_base_addr"}

AccessorId(acc) ==
    CASE acc = "command_line"     -> COMMAND_LINE_ID
      [] acc = "memory_map"       -> MEMORY_MAP_ID
      [] acc = "framebuffer"      -> FRAMEBUFFER_ID
      [] acc = "edid_info"        -> EDID_INFO_ID
      [] acc = "mtrr"             -> MTRR_ID
      [] acc = "terminal"         -> TERMINAL_ID
      [] acc = "modules"          -> MODULES_ID
      [] acc = "rsdp"             -> RSDP_ID
      [] acc = "smbios"           -> SMBIOS_ID
      [] acc = "epoch"            -> EPOCH_ID
      [] acc = "firmware"         -> FIRMWARE_ID
      [] acc = "efi_system_table" -> EFI_SYSTEM_TABLE_ID
      [] acc = "kernel_file"      -> KERNEL_FILE_ID
      [] acc = "kernel_slide"     -> KERNEL_SLIDE_ID
      [] acc = "smp"              -> SMP_ID
      [] acc = "smp_mut"          -> SMP_MUT_ID
      [] acc = "pxe_info"         -> PXE_INFO_ID
      [] acc = "uart"             -> UART_ID
      [] acc = "dev_tree"         -> DEV_TREE_ID
      [] acc = "vmap"             -> VMAP_ID
      [] acc = "kernel_file_v2"   -> KERNEL_FILE_V2_ID
      [] acc = "pmrs"             -> PMRS_ID
      [] acc = "kernel_base_addr" -> KERNEL_BASE_ADDR_ID

\* the accessors that go through new_from_ptr_count
CountedAccessors == {"memory_map", "edid_info", "modules", "smp", "smp_mut", "pmrs"}

\* faulty variant: every accessor reads the count right after the header
CountOffsetUniform(acc) == TagHeaderSize

\* faulty variant: the count is read one field too far
CountOffsetPastCount(acc) ==
    IF acc \in {"smp", "smp_mut"} THEN SmpCountOffset + 8 ELSE TagHeaderSize + 8

\* the offset from the tag's address at which the accessor reads the count
CountOffset(acc) ==
    IF acc \in {"smp", "smp_mut"} THEN SmpCountOffset ELSE TagHeaderSize

-----------------------------------------------------------------------------
(* The tag kinds and their layout in memory, as the bootloader writes them.*)

KindOrder ==
    <<"command_line", "memory_map", "framebuffer", "edid_info", "mtrr",
      "terminal", "modules", "rsdp", "smbios", "epoch", "firmware",
      "efi_system_table", "kernel_file", "kernel_slide", "smp",
      "pxe_info", "uart", "dev_tree", "vmap", "kernel_file_v2", "pmrs",
      "kernel_base_addr">>

Kinds == {KindOrder[k] : k \in 1..Len(KindOrder)}

\* the tag kind an accessor is for
KindOf(acc) == IF acc = "smp_mut" THEN "smp" ELSE acc

\* the identifier of a tag kind this library has no accessor for
OTHER_ID == NatToU64(1)

\* the identifier field the bootloader writes for a tag of each kind
KindId(kind) ==
    CASE kind = "command_line"     -> COMMAND_LINE_ID
      [] kind = "memory_map"       -> MEMORY_MAP_ID
      [] kind = "framebuffer"      -> FRAMEBUFFER_ID
      [] kind = "edid_info"        -> EDID_INFO_ID
      [] kind = "mtrr"             -> MTRR_ID
      [] kind = "terminal"         -> TERMINAL_ID
      [] kind = "modules"          -> MODULES_ID
      [] kind = "rsdp"             -> RSDP_ID
      [] kind = "smbios"           -> SMBIOS_ID
      [] kind = "epoch"            -> EPOCH_ID
      [] kind = "firmware"         -> FIRMWARE_ID
      [] kind = "efi_system_table" -> EFI_SYSTEM_TABLE_ID
      [] kind = "kernel_file"      -> KERNEL_FILE_ID
      [] kind = "kernel_slide"     -> KERNEL_SLIDE_ID
      [] kind = "smp"              -> SMP_ID
      [] kind = "pxe_info"         -> PXE_INFO_ID
      [] kind = "uart"             -> UART_ID
      [] kind = "dev_tree"         -> DEV_TREE_ID
      [] kind = "vmap"             -> VMAP_ID
      [] kind = "kernel_file_v2"   -> KERNEL_FILE_V2_ID
      [] kind = "pmrs"             -> PMRS_ID
      [] kind = "kernel_base_addr" -> KERNEL_BASE_ADDR_ID
      [] OTHER                     -> OTHER_ID

CountedKinds == {"memory_map", "edid_info", "modules", "smp", "pmrs"}

\* where the tag's struct holds its record count: right after the header,
\* or for the CPU list after flags: u64, bsp_lapic_id: u32, unused: u32
CountFieldOffset(kind) == IF kind = "smp" THEN 16 + 8 + 4 + 4 ELSE 16

\* the records follow the count
RecordBase(kind) == CountFieldOffset(kind) + 8

\* size of one record
Stride(kind) ==
    CASE kind = "memory_map" -> 8 + 8 + 4 + 4     \* base, length, kind, unused
      [] kind = "modules"    -> 8 + 8 + 128       \* begin, end, name
      [] kind = "smp"        -> 4 + 4 + 8 + 8     \* processor_id, lapic_id, target_stack, extra_argument
      [] kind = "pmrs"       -> 8 + 8 + 8         \* base, length, permissions
      [] kind = "edid_info"  -> 1                 \* u8
      [] OTHER               -> 1

\* offset of target_stack in a CPU record
TargetStackOffset == 4 + 4

Align8(n) == ((n + 7) \div 8) * 8

\* bytes a tag occupies; a fixed-shape tag is its header and one 64-bit field
TagSize(kind, count) ==
    IF kind \in CountedKinds
    THEN Align8(RecordBase(kind) + count * Stride(kind))
    ELSE 16 + 8

\* the flags field of the CPU-list tag
SmpFlags == NatToU64(5)

\* byte o of record i of the tag in slot j: every record differs
RecordByte(j, i, o) == 1 + ((j * 31 + i * 7 + o * 3) % 200)

-----------------------------------------------------------------------------
(* A configuration is the chain the bootloader hands over: the kinds of    *)
(* its tags in chain order, a seed for the record counts, what the last    *)
(* next pointer holds (0 = end of list, j = back to tag j, -1 = an address *)
(* nothing is mapped at) and the order of the tags in memory.  Chains of   *)
(* every kind come in the protocol's catalogue order; chains over a small  *)
(* palette bring duplicates, cycles and dangling pointers.                 *)

HeapBase == 16 * 256

\* where add_tag's by-value parameter lives while add_tag runs
StackAddr == 15 * 256

Palette == {"memory_map", "smp", "other"}

Rotation(s, n) == [j \in 1..n |-> KindOrder[((s + j - 2) % Len(KindOrder)) + 1]]

RECURSIVE SeqsOver(_, _)
SeqsOver(S, n) ==
    IF n = 0 THEN {<<>>}
    ELSE LET shorter == SeqsOver(S, n - 1)
         IN  shorter \cup {Append(q, x) : q \in {r \in shorter : Len(r) = n - 1}, x \in S}

Configs ==
    {[kinds |-> Rotation(s, n), seed |-> c, term |-> 0, dir |-> "asc"] :
        s \in 1..Len(KindOrder), n \in 0..MaxTags, c \in 0..MaxCount}
    \cup
    {cf \in [kinds : SeqsOver(Palette, MaxTags), seed : 0..MaxCount,
             term : -1..MaxTags, dir : {"asc", "desc"}] :
        /\ cf.term <= Len(cf.kinds)
        /\ cf.term # 0 => cf.seed = 0 /\ cf.dir = "asc"
        /\ Len(cf.kinds) = 0 => cf.term = 0 /\ cf.seed = 0 /\ cf.dir = "asc"
        /\ Len(cf.kinds) = 1 => cf.dir = "asc"}

CountOfTag(cf, j) ==
    IF cf.kinds[j] \in CountedKinds THEN (cf.seed + j - 1) % (MaxCount + 1) ELSE 0

SizeOfTag(cf, j) == TagSize(cf.kinds[j], CountOfTag(cf, j))

\* tags laid out before tag j
Before(cf, j) ==
    IF cf.dir = "asc" THEN 1..(j - 1) ELSE (j + 1)..Len(cf.kinds)

RECURSIVE SumSizes(_, _)
SumSizes(cf, S) ==
    IF S = {} THEN 0
    ELSE LET j == CHOOSE x \in S : TRUE
         IN  SizeOfTag(cf, j) + SumSizes(cf, S \ {j})

BaseOf(cf, j) == HeapBase + SumSizes(cf, Before(cf, j))

HeapEnd(cf) == HeapBase + SumSizes(cf, 1..Len(cf.kinds))

NextOf(cf, j) ==
    IF j < Len(cf.kinds) THEN BaseOf(cf, j + 1)
    ELSE IF cf.term = 0 THEN 0
    ELSE IF cf.term = -1 THEN Unmapped
    ELSE BaseOf(cf, cf.term)

FirstOf(cf) == IF Len(cf.kinds) = 0 THEN 0 ELSE BaseOf(cf, 1)

\* byte at offset o of tag j
TagByte(cf, j, o) ==
    LET kind == cf.kinds[j]
        cnt  == CountOfTag(cf, j)
        rb   == RecordBase(kind)
        cfo  == CountFieldOffset(kind)
    IN  IF o < 8 THEN KindId(kind)[o + 1]
        ELSE IF o < 16 THEN
            IF NextOf(cf, j) = Unmapped THEN Wild64[o - 7]
            ELSE NatToU64(NextOf(cf, j))[o - 7]
        ELSE IF kind \notin CountedKinds THEN RecordByte(j, 0, o)
        ELSE IF o >= cfo /\ o < cfo + 8 THEN NatToU64(cnt)[o - cfo + 1]
        ELSE IF o < rb THEN (IF o < 24 THEN SmpFlags[o - 15] ELSE 0)
        ELSE IF o < rb + cnt * Stride(kind)
             THEN RecordByte(j, (o - rb) \div Stride(kind), (o - rb) % Stride(kind))
        ELSE 0

MemOf(cf) ==
    [a \in HeapBase..(HeapEnd(cf) - 1) |->
        LET j == CHOOSE x \in 1..Len(cf.kinds) :
                    a >= BaseOf(cf, x) /\ a < BaseOf(cf, x) + SizeOfTag(cf, x)
        IN  TagByte(cf, j, a - BaseOf(cf, j))]

HeapOf(cf) ==
    [j \in 1..Len(cf.kinds) |->
        [kind |-> cf.kinds[j], addr |-> BaseOf(cf, j), count |-> CountOfTag(cf, j)]]

-----------------------------------------------------------------------------
(* Strings and the identification buffers. *)

Fill(n, b) == [i \in 1..n |-> b]

\* utils::string_from_slice: the bytes before the first NUL
StringFromSlice(buf) ==
    LET stops == {i \in 1..Len(buf) : buf[i] = 0}
        n     == IF stops = {} THEN Len(buf)
                 ELSE (CHOOSE i \in stops : \A k \in stops : i <= k) - 1
    IN  SubSeq(buf, 1, n)

\* faulty variant: the rest of the buffer is cleared
CopyFromSlicePadded(dst, src) ==
    [i \in 1..Len(dst) |-> IF i <= Len(src) THEN src[i] ELSE 0]

\* dst[..src.len()].copy_from_slice(src)
CopyFromSlice(dst, src) ==
    [i \in 1..Len(dst) |-> IF i <= Len(src) THEN src[i] ELSE dst[i]]

\* the strings callers hand to the setters: short ones, one with an
\* embedded NUL, one that fills the buffer and one that exceeds it
InputStrings ==
    SeqsOver({97, 98}, MaxStrLen)
        \cup {<<97, 0, 98>>, Fill(BufLen, 120), Fill(BufLen + 1, 121)}

-----------------------------------------------------------------------------
(* Reading memory. *)

None == [some |-> FALSE, addr |-> 0]
Some(a) == [some |-> TRUE, addr |-> a]

NoArg == [fn |-> "none", s |-> <<>>]

NoHeader == [identifier |-> Zero64, next |-> Zero64]

NoView == [present |-> FALSE, acc |-> "none", addr |-> 0, count |-> 0]

Mapped(a, n) == \A k \in 0..(n - 1) : (a + k) \in DOMAIN mem

Read64(a) == [i \in 1..8 |-> mem[a + i - 1]]

TagBases == {heap[j].addr : j \in 1..Len(heap)}

\* what a read of memory that holds no live object may yield
GarbageHeaders ==
    [identifier : {MEMORY_MAP_ID, SMP_ID, OTHER_ID},
     next : {NatToU64(0), Wild64}]

\* &*current_tag : the header at address a.  The stack slot add_tag took the
\* address of is dead once add_tag has returned (it may still hold the
\* header, or whatever a later call left there), and an address outside the
\* reserved memory holds no tag: reading either is undefined.
HeadersAt(a) ==
    IF Mapped(a, TagHeaderSize)
    THEN {[identifier |-> Read64(a), next |-> Read64(a + 8)]}
    ELSE IF a = StackAddr THEN GarbageHeaders \cup {added}
    ELSE GarbageHeaders

\* the count read at a: undefined outside the reserved memory
CountsAt(a) ==
    IF Mapped(a, 8) THEN {U64ToNat(Read64(a))} ELSE 0..MaxCount

-----------------------------------------------------------------------------
(* The views the count-prefixed accessors return.                          *)

\* StivaleXxxTag::new_from_ptr_count(ptr, count): a reference to the tag at
\* ptr whose trailing slice has count elements; nothing is read
NewFromPtrCount(acc, ptr, count) ==
    [present |-> TRUE, acc |-> acc, addr |-> ptr, count |-> count]

\* address of record i (from 0) of a view
RecordAddr(v, i) == v.addr + RecordBase(KindOf(v.acc)) + i * Stride(KindOf(v.acc))

RecordBytes(v, i) ==
    [k \in 1..Stride(KindOf(v.acc)) |-> mem[RecordAddr(v, i) + k - 1]]

Range(a, n) == a..(a + n - 1)

-----------------------------------------------------------------------------
(* Initial states. *)

\* the kernel side: the bootloader has filled the structure in
Init ==
    \E cf \in Configs :
        /\ bootloader_brand = CopyFromSlice(Fill(BufLen, 0), <<97, 98>>)
        /\ bootloader_version = CopyFromSlice(Fill(BufLen, 0), <<98>>)
        /\ tags = FirstOf(cf)
        /\ mem = MemOf(cf)
        /\ heap = HeapOf(cf)
        /\ pc = "idle"
        /\ caller = "none"
        /\ identifier = Zero64
        /\ current_tag = 0
        /\ result = None
        /\ view = NoView
        /\ arg = NoArg
        /\ added = NoHeader
        /\ out = <<>>
        /\ trace = <<>>
        /\ touched = {}
        /\ stacks = <<>>
        /\ expect_brand = bootloader_brand
        /\ expect_version = bootloader_version

\* the bootloader side: StivaleStruct::new(), with two tags built in memory
BootConfig ==
    [kinds |-> <<"memory_map", "smp">>, seed |-> 1, term |-> 0, dir |-> "asc"]

BootInit ==
    /\ bootloader_brand = Fill(BufLen, 0)
    /\ bootloader_version = Fill(BufLen, 0)
    /\ tags = 0
    /\ mem = MemOf(BootConfig)
    /\ heap = HeapOf(BootConfig)
    /\ pc = "idle"
    /\ caller = "new"
    /\ identifier = Zero64
    /\ current_tag = 0
    /\ result = None
    /\ view = NoView
    /\ arg = NoArg
    /\ added = NoHeader
    /\ out = <<>>
    /\ trace = <<>>
    /\ touched = {}
    /\ stacks = <<>>
    /\ expect_brand = bootloader_brand
    /\ expect_version = bootloader_version

-----------------------------------------------------------------------------
(* get_tag, one loop iteration per step. *)

\* entry of get_tag(id), called directly or by the accessor fn
Call(fn, id) ==
    /\ pc = "idle"
    /\ pc' = "get_tag"
    /\ caller' = fn
    /\ identifier' = id
    /\ current_tag' = tags
    /\ result' = None
    /\ view' = NoView
    /\ trace' = <<>>
    /\ touched' = {}
    /\ out' = <<>>
    /\ UNCHANGED <<bootloader_brand, bootloader_version, tags, mem, heap,
                   arg, added, stacks, expect_brand, expect_version>>

\* the identifiers callers look for
LookupIds == {MEMORY_MAP_ID, SMP_ID, OTHER_ID}

StartGetTag == \E id \in LookupIds : Call("get_tag", id)

StartAccessor == \E acc \in Accessors : Call(acc, AccessorId(acc))

Record(a) == IF Len(trace) < MaxTrace THEN Append(trace, a) ELSE trace

\* get_tag returns opt; an accessor then maps its closure over it, which for
\* a count-prefixed tag reads the count (cnt) and builds the view
Return(opt, cnt) ==
    /\ pc' = "idle"
    /\ result' = opt
    /\ IF caller \in Accessors /\ opt.some
       THEN /\ view' = NewFromPtrCount(caller, opt.addr,
                                       IF caller \in CountedAccessors THEN cnt ELSE 0)
            /\ touched' = IF caller \in CountedAccessors
                          THEN Range(opt.addr + CountOffset(caller), 8)
                          ELSE {}
       ELSE /\ view' = NoView
            /\ touched' = {}

\* faulty variant: the loop variable is advanced before the match is returned
AdvanceReturnsNext(tag) ==
    IF tag.identifier = identifier
    THEN /\ \E cnt \in (IF caller \in CountedAccessors
                        THEN CountsAt(U64ToNat(tag.next) + CountOffset(caller))
                        ELSE {0}) :
                Return(Some(U64ToNat(tag.next)), cnt)
         /\ UNCHANGED current_tag
    ELSE /\ current_tag' = U64ToNat(tag.next)
         /\ UNCHANGED <<pc, result, view, touched>>

\* faulty variant: the loop variable is not advanced when the tag does not match
AdvanceStuck(tag) ==
    IF tag.identifier = identifier
    THEN /\ \E cnt \in (IF caller \in CountedAccessors
                        THEN CountsAt(current_tag + CountOffset(caller))
                        ELSE {0}) :
                Return(Some(current_tag), cnt)
         /\ UNCHANGED current_tag
    ELSE UNCHANGED <<current_tag, pc, result, view, touched>>

\* the match test and the advance of one loop iteration
Advance(tag) ==
    IF tag.identifier = identifier
    THEN /\ \E cnt \in (IF caller \in CountedAccessors
                        THEN CountsAt(current_tag + CountOffset(caller))
                        ELSE {0}) :
                Return(Some(current_tag), cnt)
         /\ UNCHANGED current_tag
    ELSE /\ current_tag' = U64ToNat(tag.next)
         /\ UNCHANGED <<pc, result, view, touched>>

\* while !current_tag.is_null() { ... }
GetTagLoop ==
    /\ pc = "get_tag"
    /\ current_tag # 0
    /\ trace' = Record(current_tag)
    /\ \E tag \in HeadersAt(current_tag) : Advance(tag)
    /\ UNCHANGED <<bootloader_brand, bootloader_version, tags, mem, heap,
                   caller, identifier, arg, added, out, stacks, expect_brand,
                   expect_version>>

\* the loop is left with current_tag null: None
GetTagExit ==
    /\ pc = "get_tag"
    /\ current_tag = 0
    /\ Return(None, 0)
    /\ UNCHANGED <<bootloader_brand, bootloader_version, tags, mem, heap,
                   caller, identifier, current_tag, arg, added, out, trace, stacks,
                   expect_brand, expect_version>>

\* a read outside the reserved memory may also trap
GetTagFault ==
    /\ pc = "get_tag"
    /\ current_tag # 0
    /\ current_tag # StackAddr
    /\ ~Mapped(current_tag, TagHeaderSize)
    /\ pc' = "fault"
    /\ UNCHANGED <<bootloader_brand, bootloader_version, tags, mem, heap,
                   caller, identifier, current_tag, result, view, arg, added, out,
                   trace, touched, stacks, expect_brand, expect_version>>

-----------------------------------------------------------------------------
(* What the kernel does with the views. *)

\* view.records[i]: the slice index is checked against the count
ReadRecord ==
    /\ pc = "idle"
    /\ view.present
    /\ view.acc \in CountedAccessors
    /\ \E i \in 0..(view.count - 1) :
        /\ Mapped(RecordAddr(view, i), Stride(KindOf(view.acc)))
        /\ out' = RecordBytes(view, i)
        /\ touched' = Range(view.addr + CountOffset(view.acc), 8)
                          \cup Range(RecordAddr(view, i), Stride(KindOf(view.acc)))
    /\ UNCHANGED <<bootloader_brand, bootloader_version, tags, mem, heap, pc,
                   caller, identifier, current_tag, result, view, arg, added, trace,
                   stacks, expect_brand, expect_version>>

\* the target stack the kernel hands to a processor it starts
NewStack == NatToU64(HeapBase * 4)

\* smp_mut().unwrap().records[i].target_stack = NewStack
WriteTargetStack ==
    /\ pc = "idle"
    /\ view.present
    /\ view.acc = "smp_mut"
    /\ \E i \in 0..(view.count - 1) :
        LET at == RecordAddr(view, i) + TargetStackOffset
        IN  /\ Mapped(at, 8)
            /\ mem' = [a \in DOMAIN mem |->
                          IF a \in Range(at, 8) THEN NewStack[a - at + 1] ELSE mem[a]]
            /\ stacks' = [k \in DOMAIN stacks \cup {i} |->
                             IF k = i THEN NewStack ELSE stacks[k]]
    /\ UNCHANGED <<bootloader_brand, bootloader_version, tags, heap, pc, caller,
                   identifier, current_tag, result, view, arg, added, out, trace,
                   touched, expect_brand, expect_version>>

Next ==
    \/ StartGetTag
    \/ StartAccessor
    \/ GetTagLoop
    \/ GetTagExit
    \/ GetTagFault
    \/ ReadRecord
    \/ WriteTargetStack

Spec == Init /\ [][Next]_vars

-----------------------------------------------------------------------------
(* The bootloader side: filling the structure in. *)

\* the headers the bootloader links: a known or unknown kind, followed by
\* nothing or by a tag it has built
Headers ==
    [identifier : {MEMORY_MAP_ID, SMP_ID, OTHER_ID},
     next : {NatToU64(0), NatToU64(HeapBase)}]

\* self.tags = &header as *const StivaleTagHeader as u64, where header is
\* add_tag's own by-value parameter
AddTag ==
    /\ pc = "idle"
    /\ \E header \in Headers :
        /\ tags' = StackAddr
        /\ added' = header
    /\ caller' = "add_tag"
    /\ out' = <<>>
    /\ UNCHANGED <<bootloader_brand, bootloader_version, mem, heap, pc,
                   identifier, current_tag, result, view, arg, trace, touched,
                   stacks, expect_brand, expect_version>>

\* buf[..s.len()].copy_from_slice(s.as_bytes()): the range check of the
\* slice index panics before anything is copied.  The &mut self borrow ends
\* the life of a &str a getter returned earlier.
SetString(fn, s, buf, expect) ==
    /\ pc = "idle"
    /\ caller' = fn
    /\ out' = <<>>
    /\ arg' = [fn |-> fn, s |-> s]
    /\ IF Len(s) > BufLen
       THEN /\ pc' = "panic"
            /\ buf' = buf
            /\ expect' = expect
       ELSE /\ pc' = "idle"
            /\ buf' = CopyFromSlice(buf, s)
            /\ expect' = [p \in 1..BufLen |-> IF p <= Len(s) THEN s[p] ELSE expect[p]]

\* the version strings: one longer than the other, and one too long
VersionStrings == {<<98, 98>>, <<97>>, Fill(BufLen + 1, 121)}

SetBootloaderBrand ==
    /\ \E s \in InputStrings :
        SetString("set_bootloader_brand", s, bootloader_brand, expect_brand)
    /\ UNCHANGED <<bootloader_version, tags, mem, heap, identifier, current_tag,
                   result, view, added, trace, touched, stacks, expect_version>>

SetBootloaderVersion ==
    /\ \E s \in VersionStrings :
        SetString("set_bootloader_version", s, bootloader_version, expect_version)
    /\ UNCHANGED <<bootloader_brand, tags, mem, heap, identifier, current_tag,
                   result, view, added, trace, touched, stacks, expect_brand>>

GetString(fn, buf) ==
    /\ pc = "idle"
    /\ caller' = fn
    /\ out' = StringFromSlice(buf)
    /\ UNCHANGED <<bootloader_brand, bootloader_version, tags, mem, heap, pc,
                   identifier, current_tag, result, view, arg, added, trace,
                   touched, stacks, expect_brand, expect_version>>

BootloaderBrand == GetString("bootloader_brand", bootloader_brand)

BootloaderVersion == GetString("bootloader_version", bootloader_version)

BootNext ==
    \/ AddTag
    \/ SetBootloaderBrand
    \/ SetBootloaderVersion
    \/ BootloaderBrand
    \/ BootloaderVersion

BootSpec == BootInit /\ [][BootNext]_vars

LinkNext ==
    \/ AddTag
    \/ StartGetTag
    \/ GetTagLoop
    \/ GetTagExit
    \/ GetTagFault

LinkSpec == BootInit /\ [][LinkNext]_vars

\* one thread runs get_tag: a loop iteration that can run does run
FairSpec == Spec /\ WF_vars(GetTagLoop) /\ WF_vars(GetTagExit)

-----------------------------------------------------------------------------
(* The chain as the claims speak of it: the addresses reached from the     *)
(* first-tag address by following next until it is null.                   *)

RECURSIVE Walk(_, _)
Walk(a, fuel) ==
    IF a = 0 \/ fuel = 0 \/ ~Mapped(a, TagHeaderSize) THEN <<>>
    ELSE <<a>> \o Walk(U64ToNat(Read64(a + 8)), fuel - 1)

Chain == Walk(tags, Len(heap) + 1)

\* a finite acyclic chain of live tags: the walk ends at a null next pointer
WellFormed ==
    /\ Len(Chain) <= Len(heap)
    /\ IF Chain = <<>> THEN tags = 0
       ELSE U64ToNat(Read64(Chain[Len(Chain)] + 8)) = 0

\* the walk never leaves the tags and never ends
Cyclic == Len(Chain) = Len(heap) + 1

Matches(id) == {k \in 1..Len(Chain) : Read64(Chain[k]) = id}

FirstMatch(id) ==
    IF Matches(id) = {} THEN None
    ELSE Some(Chain[CHOOSE k \in Matches(id) : \A m \in Matches(id) : k <= m])

\* a call of get_tag, direct or through an accessor, has returned
Returned == pc = "idle" /\ caller \in Accessors \cup {"get_tag"}

\* the tag of the chain an accessor of kind k has to find, 0 if there is none
KindSlots(k) == {j \in 1..Len(heap) : heap[j].kind = k}

FirstSlot(k) == CHOOSE j \in KindSlots(k) : \A m \in KindSlots(k) : j <= m

IsPrefix(p, q) == Len(p) <= Len(q) /\ \A k \in 1..Len(p) : p[k] = q[k]

-----------------------------------------------------------------------------
(* C1: on every finite acyclic chain, the empty one included, get_tag(id)  *)
(* returns the address of the first tag in chain order whose identifier is *)
(* id, an earlier duplicate winning over a later one, and None exactly     *)
(* when no tag of the chain has that identifier.                           *)
C1_GetTagFirstMatch ==
    (Returned /\ WellFormed) => result = FirstMatch(identifier)

\* two tags share the identifier, the first in chain order lies at the
\* higher address, and it is the one returned
C1_Witness ==
    /\ Returned /\ WellFormed
    /\ caller = "get_tag"
    /\ Len(Chain) = 2
    /\ Matches(identifier) = {1, 2}
    /\ Chain[1] > Chain[2]
    /\ result = Some(Chain[1])

(* C2: a typed accessor returns a value exactly when get_tag of its own    *)
(* identifier does, and the reference is to that address; a tag of another *)
(* kind never makes it return a value, and on the empty chain every        *)
(* accessor returns nothing.                                               *)
C2_AccessorFindsOwnKind ==
    (Returned /\ WellFormed /\ caller \in Accessors) =>
        /\ view.present = result.some
        /\ view.present = (KindSlots(KindOf(caller)) # {})
        /\ view.present =>
              /\ view.acc = caller
              /\ view.addr = result.addr
              /\ view.addr = heap[FirstSlot(KindOf(caller))].addr
        /\ tags = 0 => ~view.present

\* smp_mut finds the CPU list behind a tag of another kind
C2_Witness ==
    /\ Returned /\ WellFormed
    /\ caller = "smp_mut"
    /\ Len(Chain) = 2
    /\ heap[1].kind = "memory_map"
    /\ view.present
    /\ view.addr = heap[2].addr


\* a count-prefixed accessor has returned a view of a tag of a sound chain
CountedView ==
    /\ Returned /\ WellFormed
    /\ view.present
    /\ view.acc \in CountedAccessors

\* record i of the tag in slot j as the bootloader stored it, with the target
\* stacks the kernel has written since
Stored(j, i) ==
    [k \in 1..Stride(heap[j].kind) |->
        IF /\ heap[j].kind = "smp"
           /\ i \in DOMAIN stacks
           /\ k - 1 \in Range(TargetStackOffset, 8)
        THEN stacks[i][k - TargetStackOffset]
        ELSE RecordByte(j, i, k - 1)]

(* C6: the record count of a count-prefixed view is the 64-bit value at    *)
(* base + 16 (memory_map, edid_info, modules, pmrs) or base + 32 (smp,     *)
(* smp_mut), and the view holds exactly the stored records, in order.      *)
C6_CountAndRecords ==
    CountedView =>
        LET j == FirstSlot(KindOf(view.acc))
            off == IF view.acc \in {"smp", "smp_mut"} THEN 32 ELSE 16
        IN  /\ view.count = U64ToNat(Read64(heap[j].addr + off))
            /\ view.count = heap[j].count
            /\ \A i \in 0..(view.count - 1) : RecordBytes(view, i) = Stored(j, i)

\* a memory map of two records, the second read through the view
C6_Witness ==
    /\ CountedView
    /\ view.acc = "memory_map"
    /\ view.count = 2
    /\ out = Stored(FirstSlot("memory_map"), 1)
    /\ out # Stored(FirstSlot("memory_map"), 0)

(* C7: the decoder and the view read nothing outside the tag's extent:     *)
(* with count 0 no byte past the count field, with count K the K-th record *)
(* starts at record base + (K-1) * stride and no byte at record base +     *)
(* K * stride or beyond is read.                                           *)
C7_ReadsWithinExtent ==
    CountedView =>
        LET j    == FirstSlot(KindOf(view.acc))
            kind == heap[j].kind
            base == heap[j].addr
            K    == heap[j].count
        IN  /\ touched \subseteq Range(base, RecordBase(kind) + K * Stride(kind))
            /\ K = 0 => touched \subseteq Range(base, CountFieldOffset(kind) + 8)
            /\ K > 0 => RecordAddr(view, K - 1)
                           = base + RecordBase(kind) + (K - 1) * Stride(kind)

\* the last of two module records has been read up to its last byte
C7_Witness ==
    /\ CountedView
    /\ view.acc = "modules"
    /\ heap[FirstSlot("modules")].count = 2
    /\ (RecordAddr(view, 1) + Stride("modules") - 1) \in touched

\* the target_stack field of record i of the first CPU-list tag
StackField(i) ==
    Range(heap[FirstSlot("smp")].addr + RecordBase("smp") + i * Stride("smp")
              + TargetStackOffset, 8)

C5_Observed ==
    (Returned /\ WellFormed /\ view.present /\ view.acc \in {"smp", "smp_mut"}) =>
        LET j == FirstSlot("smp")
        IN  /\ view.addr = heap[j].addr
            /\ view.count = heap[j].count
            /\ DOMAIN stacks \subseteq 0..(view.count - 1)
            /\ \A i \in 0..(view.count - 1) :
                  Read64(RecordAddr(view, i) + TargetStackOffset)
                      = [k \in 1..8 |-> Stored(j, i)[TargetStackOffset + k]]

C5_Frame ==
    mem' # mem =>
        /\ DOMAIN mem' = DOMAIN mem
        /\ \E i \in 0..(heap[FirstSlot("smp")].count - 1) :
              /\ \A a \in DOMAIN mem : a \notin StackField(i) => mem'[a] = mem[a]
              /\ \A a \in StackField(i) : a \in DOMAIN mem
              /\ stacks' = [k \in DOMAIN stacks \cup {i} |->
                               IF k = i THEN Read64(RecordAddr(view, i) + TargetStackOffset)'
                               ELSE stacks[k]]
        /\ UNCHANGED <<bootloader_brand, bootloader_version, tags, heap>>

(* C5: a target stack written to record i through smp_mut() is what a      *)
(* later smp() shows at record i; the other records, the count, the other  *)
(* tags and the fields of the StivaleStruct stay as they were; smp() and   *)
(* smp_mut() give the same tag address and record count.                   *)
C5_SmpWriteObserved == []C5_Observed /\ [][C5_Frame]_vars

\* smp() after a write to record 1 of 2: record 1 shows the new stack,
\* record 0 the stored one
C5_Witness ==
    /\ Returned /\ WellFormed
    /\ view.present /\ view.acc = "smp"
    /\ view.count = 2
    /\ DOMAIN stacks = {1}
    /\ Read64(RecordAddr(view, 1) + TargetStackOffset) = NewStack
    /\ Read64(RecordAddr(view, 0) + TargetStackOffset) # NewStack
    /\ out = RecordBytes(view, 1)

C9_Trace ==
    /\ (caller \in Accessors \cup {"get_tag"} /\ WellFormed) =>
          /\ pc # "fault"
          /\ IsPrefix(trace, Chain)
          /\ pc = "get_tag" =>
                /\ current_tag = IF Len(trace) < Len(Chain)
                                 THEN Chain[Len(trace) + 1] ELSE 0
                /\ \A k \in 1..Len(trace) : Read64(trace[k]) # identifier
          /\ pc = "idle" =>
                IF result.some
                THEN /\ trace # <<>>
                     /\ trace[Len(trace)] = result.addr
                     /\ Matches(identifier) \cap 1..Len(trace) = {Len(trace)}
                ELSE trace = Chain
    /\ (caller \in Accessors \cup {"get_tag"} /\ Cyclic /\ Matches(identifier) = {}) =>
          pc = "get_tag"

C9_NoWrite ==
    pc = "get_tag" =>
        UNCHANGED <<mem, tags, bootloader_brand, bootloader_version>>

(* C9: on a finite acyclic chain get_tag terminates, reading the headers   *)
(* in chain order from the first-tag address, each at most once, up to the *)
(* first match or the null next pointer, and writes nothing; on a chain    *)
(* with a cycle a call for an identifier that is not in it never returns.  *)
C9_GetTagTerminates ==
    /\ []C9_Trace
    /\ [][C9_NoWrite]_vars
    /\ (pc = "get_tag" /\ WellFormed) ~> (pc = "idle")

\* a call that read both headers of a two-tag chain and found nothing
C9_Witness ==
    /\ Returned /\ WellFormed
    /\ Len(Chain) = 2
    /\ ~result.some
    /\ trace = Chain


-----------------------------------------------------------------------------
(* The bootloader-side claims. *)

NoNul(s) == \A i \in 1..Len(s) : s[i] # 0

Setters == {"set_bootloader_brand", "set_bootloader_version"}

(* C3: for a string s of at most 64 bytes without NUL,                     *)
(* set_bootloader_brand(s) followed by bootloader_brand() yields exactly   *)
(* s, also after an earlier set of a longer string; likewise for the       *)
(* version.                                                                *)
C3_RoundTrip ==
    /\ (/\ caller = "bootloader_brand"
        /\ arg.fn = "set_bootloader_brand"
        /\ Len(arg.s) <= BufLen /\ NoNul(arg.s)) => out = arg.s
    /\ (/\ caller = "bootloader_version"
        /\ arg.fn = "set_bootloader_version"
        /\ Len(arg.s) <= BufLen /\ NoNul(arg.s)) => out = arg.s

(* C4: a setter called with more than 64 bytes fails with an error that    *)
(* reaches its caller, and writes nothing: both buffers and the first-tag  *)
(* address keep their values.                                              *)
C4_CapacityError ==
    (caller \in Setters /\ arg.fn = caller /\ Len(arg.s) > BufLen) =>
        /\ pc = "idle"
        /\ bootloader_brand = expect_brand
        /\ bootloader_version = expect_version

(* C8: after add_tag(header) the first-tag address refers to a live tag    *)
(* with header's identifier and next, so get_tag(header.identifier)        *)
(* returns the first-tag address.                                          *)
C8_AddTagLinksHead ==
    (/\ pc = "idle" /\ caller = "get_tag"
     /\ tags # 0
     /\ identifier = added.identifier) => result = Some(tags)

C10_Expected ==
    /\ bootloader_brand = expect_brand
    /\ bootloader_version = expect_version

C10_Frame ==
    /\ (caller' = "set_bootloader_brand" /\ Len(arg'.s) <= BufLen) =>
          /\ \A p \in 1..BufLen :
                bootloader_brand'[p] = IF p <= Len(arg'.s) THEN arg'.s[p]
                                       ELSE bootloader_brand[p]
          /\ UNCHANGED <<bootloader_version, tags>>
    /\ (caller' = "set_bootloader_version" /\ Len(arg'.s) <= BufLen) =>
          /\ \A p \in 1..BufLen :
                bootloader_version'[p] = IF p <= Len(arg'.s) THEN arg'.s[p]
                                         ELSE bootloader_version[p]
          /\ UNCHANGED <<bootloader_brand, tags>>

(* C10: a setter given s of at most 64 bytes overwrites bytes 0..len(s) of *)
(* its buffer and nothing else: the rest of that buffer, the other buffer  *)
(* and the first-tag address keep their values, so every byte of a buffer  *)
(* is the one written by the latest set that reached its position, or 0.   *)
C10_SetterFrame == []C10_Expected /\ [][C10_Frame]_vars

\* "a" set over "ab" with a tag linked: the b is still in the buffer
C10_Witness ==
    /\ caller = "set_bootloader_brand"
    /\ arg.s = <<97>>
    /\ bootloader_brand[1] = 97
    /\ bootloader_brand[2] = 98
    /\ bootloader_version[1] = 98
    /\ tags = StackAddr

====
